---------------------------- MODULE Spec2Model ----------------------------
(***************************************************************************)
(* A model of the cache facade of src/cache.go (lines 1-458): one cache    *)
(* instance, shared by concurrent callers and by the background cleaning   *)
(* goroutine the constructors start for a local backend with a positive    *)
(* expiration.                                                             *)
(*                                                                         *)
(* Time is a counter of whole seconds (now); durations are whole seconds.  *)
(* A caller's operation is a sequence of steps, one per access to shared   *)
(* state (the mutex, the map, the directory, the remote store, the clock): *)
(* a step that ends an operation also runs its deferred Unlock/RUnlock.    *)
(* The expiration a memcache backend hands to its store is modelled a      *)
(* second time at the full width of time.Duration (SpecTTL).               *)
(***************************************************************************)
EXTENDS Integers, Sequences, FiniteSets, Bags, TLC

\* ------------------------------------------------------------------ bounds
MaxOps == 3
\* The calls the callers make in the behaviours checked for liveness.
LiveOps == 2
\* The calls the callers make in the behaviours of Add, Set and Delete.
AddOps == 4
\* The last time the clock is moved to by the cleaner's timer.
MaxTime == 11

Keys == {"k1", "k2"}
\* The key whose history is kept (the operations treat all keys alike).
Probe == "k1"
Callers == {"c1", "c2"}
\* Idle callers are interchangeable: of two idle callers, c1 makes the call.
CallerOrder == {<<"c1", "c2">>}

\* ------------------------------------------------------- program constants
cacheTypeDefault == "memory"
cacheTypeFile == "file"
cacheTypeRedis == "redis"
cacheTypeMemcache == "memcache"
defaultExpiration == 0

ErrCacheNotFound == "cache lib: cache not found"
ErrCacheExpired == "cache lib: cache expired"
ErrCreatingFile == "cache lib: cannot create file on the given path"
ErrCacheAlreadyExists == "cache lib: cache already exists"
\* json.MarshalIndent's error for a value encoding/json does not support
ErrUnsupportedType == "json: unsupported type"

\* fmt.Errorf("%v: %w", sentinel, err): a new error, which is not the
\* sentinel; its text is the sentinel's, a colon, and the text of err.
Errorf(sentinel, err) == sentinel \o ": " \o err
\* os.OpenFile's error for the file of key k in a directory that takes none
OpenError(k) == "open " \o k \o ": no such file or directory"
\* file.Write's error for the file of key k
WriteError(k) == "write " \o k \o ": no space left on device"
\* the error of redisClient.Set and memCacheClient.Set when the store fails
StoreError == "dial tcp: connection refused"

\* The expiration the tests construct every cache with (5 * time.Second).
TestExpiration == 5

\* The instants at which the clock is read: the start, one expiration later
\* (an entry written at the start is then at its expiry, and not past it), and
\* one second after that.
Instants == {0, TestExpiration, TestExpiration + 1}

\* The (backend, expiration argument) pairs a cache is constructed with.
Constructions ==
    ({cacheTypeDefault} \X {-1, 0, TestExpiration})
        \cup ({cacheTypeFile} \X {0, TestExpiration})
        \cup ({cacheTypeRedis} \X {0, TestExpiration})
        \cup ({cacheTypeMemcache} \X {0, TestExpiration})

\* ------------------------------------------------------------------ values
\* The values callers pass: an int, a string, and a channel (which
\* encoding/json cannot encode).
IntValue(n) == [kind |-> "int", n |-> n, s |-> ""]
StringValue(s) == [kind |-> "string", n |-> 0, s |-> s]
ChanValue == [kind |-> "chan", n |-> 0, s |-> ""]
NoValue == [kind |-> "none", n |-> 0, s |-> ""]
Values == {IntValue(1), StringValue("1"), ChanValue}

Digits == <<"0", "1", "2", "3", "4", "5", "6", "7", "8", "9">>

RECURSIVE Itoa(_)
Itoa(n) == IF n < 10 THEN Digits[n + 1]
           ELSE Itoa(n \div 10) \o Digits[(n % 10) + 1]

\* (mutation) an encoder that takes a channel for an empty payload
MarshalIndentLenient(v) ==
    CASE v.kind = "int" ->
            [err |-> "nil",
             val |-> IF v.n < 0 THEN "-" \o Itoa(-v.n) ELSE Itoa(v.n)]
      [] v.kind = "string" -> [err |-> "nil", val |-> "\"" \o v.s \o "\""]
      [] OTHER -> [err |-> "nil", val |-> ""]

\* json.MarshalIndent(value, "", " ") on the values above: a number is its
\* decimal digits, a string is quoted, a channel is an error.  (Indentation
\* only shows inside objects and arrays.)
MarshalIndent(v) ==
    CASE v.kind = "int" ->
            [err |-> "nil",
             val |-> IF v.n < 0 THEN "-" \o Itoa(-v.n) ELSE Itoa(v.n)]
      [] v.kind = "string" -> [err |-> "nil", val |-> "\"" \o v.s \o "\""]
      [] OTHER -> [err |-> ErrUnsupportedType, val |-> ""]

\* ------------------------------------------------------------------- state
VARIABLES
    cacheType,   \* c.cacheType
    expiration,  \* c.expiration, after the constructor's normalisation
    items,       \* c.items: key -> cacheItem (found = the key is in the map)
    files,       \* the directory c.filePath: key -> file (content, mod time)
    env,         \* the environment: whether os.OpenFile can create a file
                 \* under c.filePath, whether file.Write succeeds, and
                 \* whether the remote store accepts a Set
    cacheFiles,  \* c.cacheFiles: the set of keys written through the instance
    store,       \* the remote key-value store (redis or memcached)
    cleaner,     \* c.cleaner: the timer of the cleaning goroutine, or no cleaner
    mu,          \* c.mu: the RWMutex
    now,         \* the clock
    th,          \* the callers: position in their operation, and locals
    ret,         \* the operation that returned at the last step, and its result
    sw,          \* the cleaning goroutine: position, locals
    tasks,       \* the goroutines "go c.has(key)" of the file backend's sweep:
                 \* a bag, since two passes can each start one for a key
    lastw,       \* history: the last successful write of key Probe, and the
                 \* caller's operation that removed the entry since, if any
    nops,        \* history: the number of operations called so far
    fatal        \* the Go runtime ended the process (concurrent map access)

vars == <<cacheType, expiration, items, files, env, cacheFiles, store,
          cleaner, mu, now, th, ret, sw, tasks, lastw, nops, fatal>>

\* cacheItem{value, expiration}; found is the second result of a map lookup.
NoItem == [found |-> FALSE, value |-> "", expiration |-> 0]
CacheItem(val, exp) == [found |-> TRUE, value |-> val, expiration |-> exp]

\* A file of the directory, as os.Stat and ioutil.ReadFile see it.  modTime
\* is the file system's clock at the write, which is behind the time.Now()
\* of that instant by less than a unit of the model's clock.
NoFile == [exists |-> FALSE, content |-> "", modTime |-> 0]
File(content, t) == [exists |-> TRUE, content |-> content, modTime |-> t]

\* An entry of the remote store; expireAt = 0 is a persistent entry.
NoEntry == [found |-> FALSE, value |-> "", expireAt |-> 0]
Entry(val, at) == [found |-> TRUE, value |-> val, expireAt |-> at]

\* history of key Probe: the value, time and operation of its last successful
\* write, the caller's operation that removed the entry since, if any, and
\* what the write came after: nothing (the first write of the key), a
\* caller's operation that had removed the entry before it, or none of these.
NoWrite == [val |-> NoValue, at |-> 0, op |-> "none", removedBy |-> "none",
            after |-> "none"]

NoKey == "none"

\* os.Stat's FileInfo, of which the code reads ModTime()
FileInfo(f) == [modTime |-> f.modTime]
NoInfo == [modTime |-> 0]

\* A caller: its position, the operation it is in with its arguments, the
\* time of the call (of a Get or Pull) or of the Write to the file (of a set
\* on the file backend), the caller's operation that had
\* removed the entry of Probe when the call was made, and the locals of the
\* operation.
Idle == [pc |-> "idle", op |-> "none", key |-> NoKey, val |-> NoValue,
         start |-> 0, seen |-> "none", item |-> NoItem, info |-> NoInfo,
         out |-> ""]

NoRet == [op |-> "none", key |-> NoKey, val |-> NoValue, start |-> 0,
          seen |-> "none", res |-> "none", out |-> "", obs |-> NoWrite]

\* The cleaning goroutine: its position, the key and the item of the has it
\* is in, and the state of its range loop: for every key, whether the loop
\* has still to produce it ("todo": in the map when the loop began), has
\* produced it ("done"), may produce it or skip it ("new": it joined the map
\* during the loop) or will not ("none": not in the map); old = c.items has
\* been replaced since the loop began, and the loop goes over the old map.
SwIdle == [pc |-> "select", iter |-> [k \in Keys |-> "none"], old |-> FALSE,
           key |-> NoKey, item |-> NoItem]

\* c.cleaner: on = there is one; armed = its timer will fire, at fireAt;
\* fired = the timer has sent on interval.C and the value waits there;
\* stopped (history) = the goroutine has received from cleaner.stop.
NoCleaner == [on |-> FALSE, armed |-> FALSE, fireAt |-> 0, fired |-> FALSE,
              stopped |-> FALSE]


\* ------------------------------------------------------------ construction
\* NewDefaultCache, NewFileCache, NewRedisCache, NewMemCache: an expiration
\* of zero or less becomes defaultExpiration; a local backend with a positive
\* one gets a cleaner whose timer is set to fire after the expiration.
NormalizeExpiration(d) == IF d <= defaultExpiration THEN defaultExpiration ELSE d

\* (mutation) a constructor that makes the timer whatever the backend
NewCleanerAnyBackend(type, d) ==
    IF d <= defaultExpiration THEN NoCleaner
    ELSE [NoCleaner EXCEPT !.on = TRUE, !.armed = TRUE, !.fireAt = d]

NewCleaner(type, d) ==
    IF d <= defaultExpiration \/ type \in {cacheTypeRedis, cacheTypeMemcache}
    THEN NoCleaner
    ELSE [NoCleaner EXCEPT !.on = TRUE, !.armed = TRUE, !.fireAt = d]

\* cleanExpiredCache's guards: the goroutine runs only with a cleaner, and
\* only for the memory and file backends.
CleanerRuns ==
    cleaner.on /\ cacheType \notin {cacheTypeMemcache, cacheTypeRedis}

\* The environments of a cache of a backend: a directory in which files
\* cannot be created, or can while their Write fails, or both succeed (file);
\* a store that accepts the writes or fails them (redis, memcache).
Environment(dir, file, up) ==
    [dirWritable |-> dir, fileWritable |-> file, storeUp |-> up]

Environments(type) ==
    CASE type = cacheTypeFile ->
            {Environment(TRUE, TRUE, TRUE), Environment(TRUE, FALSE, TRUE),
             Environment(FALSE, TRUE, TRUE)}
      [] type \in {cacheTypeRedis, cacheTypeMemcache} ->
            {Environment(TRUE, TRUE, TRUE), Environment(TRUE, TRUE, FALSE)}
      [] OTHER -> {Environment(TRUE, TRUE, TRUE)}

InitWith(n) ==
    /\ \E con \in Constructions :
          /\ cacheType = con[1]
          /\ expiration = NormalizeExpiration(con[2])
          /\ cleaner = NewCleaner(con[1], con[2])
          /\ env \in Environments(con[1])
    /\ items = [k \in Keys |-> NoItem]
    /\ files = [k \in Keys |-> NoFile]
    /\ cacheFiles = {}
    /\ store = [k \in Keys |-> NoEntry]
    /\ mu = [w |-> FALSE, r |-> 0]
    /\ now = 0
    /\ th = [c \in Callers |-> Idle]
    /\ ret = NoRet
    /\ sw = SwIdle
    /\ tasks = EmptyBag
    /\ lastw = NoWrite
    /\ nops = n
    /\ fatal = FALSE

Init == InitWith(0)

\* The same constructions, the callers having LiveOps calls to make.
InitLive == InitWith(MaxOps - LiveOps)

\* ------------------------------------------------------------- the policy
\* has / getDefaultCache: item.expiration > 0 && time.Now().UnixNano() > item.expiration
ItemExpired(item, t) == item.expiration > 0 /\ t > item.expiration

\* has / getFileCache: c.expiration > 0 && now > c.expiration + ModTime.
\* ModTime is behind the instant modTime of the write by less than a unit,
\* so on whole units the test holds from expiration + modTime on.
FileExpired(info, t) == expiration > 0 /\ t >= expiration + info.modTime

\* (mutation) the expiration timestamp computed whatever c.expiration is
ExpirationAtAlways(t) == t + expiration

\* set: the expiration timestamp of a write at time t (0: never expires)
ExpirationAt(t) == IF expiration > defaultExpiration THEN t + expiration ELSE 0

\* The remote store's own expiry.  Redis drops a key once the clock is past
\* its expiry; memcached once the clock has reached it.
StoreExpired(e, t) ==
    /\ e.expireAt # 0
    /\ IF cacheType = cacheTypeMemcache THEN t >= e.expireAt ELSE t > e.expireAt

\* redisClient.Get / memCacheClient.Get: the entry, or not found
StoreGet(k) == IF store[k].found /\ ~StoreExpired(store[k], now)
               THEN store[k] ELSE NoEntry

\* redisClient.Set(key, val, c.expiration) and memCacheClient.Set with
\* Expiration: int32(c.expiration.Seconds()), a whole number of seconds here;
\* both stores keep an entry written with 0 for ever.
StoreExpireAt(t) == IF expiration = 0 THEN 0 ELSE t + expiration

\* ------------------------------------------------------------ the RWMutex
ExclusiveOps == {"Add", "Set", "Delete", "Flush"}
SharedOps == {"Get", "Pull", "Has"}

\* (mutation) a Lock that does not wait for the readers
CanLockOverReaders(op) == ~mu.w

\* c.mu.Lock() / c.mu.RLock() can return
CanLock(op) == IF op \in ExclusiveOps THEN ~mu.w /\ mu.r = 0 ELSE ~mu.w

Locked(op) == IF op \in ExclusiveOps THEN [mu EXCEPT !.w = TRUE]
              ELSE [mu EXCEPT !.r = @ + 1]

\* the deferred c.mu.Unlock() / c.mu.RUnlock()
Unlocked(op) == IF op \in ExclusiveOps THEN [mu EXCEPT !.w = FALSE]
                ELSE [mu EXCEPT !.r = @ - 1]

\* The first step of an operation once it holds the lock.
FirstStep(op) ==
    CASE op \in {"Add", "Has"} -> "has"
      [] op = "Set" -> "set"
      [] op \in {"Get", "Pull"} -> "get"
      [] op = "Delete" -> "delete"
      [] op = "Flush" -> "flush"

\* A caller's operation returns res (and out, for Get and Pull): its deferred
\* Unlock or RUnlock runs, and the caller is idle again.  obs is the history
\* of key Probe as the returning step found it.
Return(c, res, out) ==
    /\ th' = [th EXCEPT ![c] = Idle]
    /\ mu' = Unlocked(th[c].op)
    /\ ret' = [op |-> th[c].op, key |-> th[c].key, val |-> th[c].val,
               start |-> th[c].start, seen |-> th[c].seen, res |-> res,
               out |-> out,
               obs |-> lastw]

\* A caller's operation goes on, with locals t.
Continue(c, t) ==
    /\ th' = [th EXCEPT ![c] = t]
    /\ mu' = mu
    /\ ret' = NoRet

At(c, pc) == [th[c] EXCEPT !.pc = pc]

Remove(f, k, none) == [f EXCEPT ![k] = none]

\* Key k is in the map the cleaning goroutine ranges over.
InMap(k) == IF cacheType = cacheTypeDefault THEN items[k].found
            ELSE k \in cacheFiles

\* The keys of that map.
MapKeys == {k \in Keys : InMap(k)}

\* The range loop of the cleaning goroutine after a step that leaves the
\* keys after in the map it goes over: a key that has left the map is not
\* produced, a key that has joined it may be produced or skipped.
Ranged(after) ==
    IF sw.pc = "select" \/ sw.old THEN sw
    ELSE [sw EXCEPT !.iter = [k \in Keys |->
                                 IF k \in MapKeys \ after THEN "none"
                                 ELSE IF k \in after \ MapKeys THEN "new"
                                 ELSE sw.iter[k]]]

\* delete(c.items, k), for the loop
Without(k) ==
    Ranged(IF cacheType = cacheTypeDefault THEN MapKeys \ {k} ELSE MapKeys)

\* The same after Flush: the memory backend's c.items is a new map, and a
\* loop that has begun goes on over the old one, which nothing changes any
\* more; c.cacheFiles stays as it is.
RangedOld ==
    IF cacheType = cacheTypeDefault /\ sw.pc # "select"
    THEN [sw EXCEPT !.old = TRUE] ELSE sw

\* history: a caller's operation op (Delete, Pull, Flush) removed the entry
Removed(k, op) ==
    IF k = Probe /\ lastw.op # "none" THEN [lastw EXCEPT !.removedBy = op]
    ELSE lastw

\* history: the write of value v to key k by operation op succeeded now
Written(k, v, op) ==
    IF k = Probe
    THEN [val |-> v, at |-> now, op |-> op, removedBy |-> "none",
          after |-> IF lastw.op = "none" THEN "nothing" ELSE lastw.removedBy]
    ELSE lastw

\* ------------------------------------------------------------------- calls
\* history: the time of a call, kept for the operations that return a payload
CallTime(op) == IF op \in {"Get", "Pull"} THEN now ELSE 0

\* history: the removal of Probe's entry that precedes a call, kept for the
\* operations on Probe that read the entry
CallSeen(op, k) ==
    IF op \in {"Get", "Pull", "Has"} /\ k = Probe THEN lastw.removedBy
    ELSE "none"

\* A caller calls an operation of the Cache interface, and its c.mu.Lock() or
\* c.mu.RLock() returns: a call that waits for the mutex does nothing until
\* then.  (The value of Add and Set is first read by set, and is chosen there.)
Call(c, op, k) ==
    /\ ~fatal /\ th[c].pc = "idle" /\ nops < MaxOps
    /\ \A d \in Callers : <<d, c>> \in CallerOrder => th[d].pc # "idle"
    /\ CanLock(op)
    /\ mu' = Locked(op)
    /\ th' = [th EXCEPT ![c] = [Idle EXCEPT !.pc = FirstStep(op), !.op = op,
                                           !.key = k, !.start = CallTime(op),
                                           !.seen = CallSeen(op, k)]]
    /\ nops' = nops + 1
    /\ ret' = NoRet
    /\ UNCHANGED <<cacheType, expiration, items, files, env,
                   cacheFiles, store, cleaner, now, sw, tasks, lastw, fatal>>

\* --------------------------------------------------------------------- has
\* The result of c.has(key) for its caller: Has returns it; Add returns
\* ErrCacheAlreadyExists on true and goes on to c.set(key, value) on false.
HasResult(c, found) ==
    IF th[c].op = "Has"
    THEN Return(c, IF found THEN "true" ELSE "false", "")
    ELSE IF found
         THEN Return(c, ErrCacheAlreadyExists, "")
         ELSE Continue(c, At(c, "set"))

\* has, first part: the map lookup, os.Stat, or the remote store's Get.
HasLookup(c) ==
    /\ ~fatal /\ th[c].pc = "has"
    /\ LET k == th[c].key IN
       CASE cacheType = cacheTypeDefault ->
               IF ~items[k].found THEN HasResult(c, FALSE)
               ELSE Continue(c, [th[c] EXCEPT !.pc = "has_expired",
                                              !.item = items[k]])
         [] cacheType = cacheTypeFile ->
               IF ~files[k].exists THEN HasResult(c, FALSE)
               ELSE Continue(c, [th[c] EXCEPT !.pc = "has_expired",
                                              !.info = FileInfo(files[k])])
         [] OTHER -> HasResult(c, StoreGet(k).found)
    /\ UNCHANGED <<cacheType, expiration, items, files, env,
                   cacheFiles, store, cleaner, now, sw, tasks, lastw, nops, fatal>>

\* (mutation) has testing the expiry of an item with >= where get has >
HasExpiredAtExpiry(c) ==
    /\ ~fatal /\ th[c].pc = "has_expired"
    /\ LET k == th[c].key
           atExpiry == th[c].item.expiration > 0
                          /\ now >= th[c].item.expiration
       IN
       IF cacheType = cacheTypeDefault
       THEN /\ items' = IF atExpiry THEN Remove(items, k, NoItem) ELSE items
            /\ files' = files
            /\ HasResult(c, ~atExpiry)
       ELSE /\ files' = IF FileExpired(th[c].info, now)
                        THEN Remove(files, k, NoFile) ELSE files
            /\ items' = items
            /\ HasResult(c, ~FileExpired(th[c].info, now))
    /\ UNCHANGED <<cacheType, expiration, env, cacheFiles, store,
                   cleaner, now, tasks, lastw, nops, fatal>>
    /\ sw' = IF cacheType = cacheTypeDefault /\ th[c].item.expiration > 0
                /\ now >= th[c].item.expiration
             THEN Without(th[c].key) ELSE sw

\* has, second part (local backends): the clock is read and compared with
\* the expiry of the item (file) found; an expired one is removed.
HasExpired(c) ==
    /\ ~fatal /\ th[c].pc = "has_expired"
    /\ LET k == th[c].key IN
       IF cacheType = cacheTypeDefault
       THEN /\ items' = IF ItemExpired(th[c].item, now)
                        THEN Remove(items, k, NoItem) ELSE items
            /\ files' = files
            /\ HasResult(c, ~ItemExpired(th[c].item, now))
       ELSE /\ files' = IF FileExpired(th[c].info, now)
                        THEN Remove(files, k, NoFile) ELSE files
            /\ items' = items
            /\ HasResult(c, ~FileExpired(th[c].info, now))
    /\ UNCHANGED <<cacheType, expiration, env, cacheFiles, store,
                   cleaner, now, tasks, lastw, nops, fatal>>
    /\ sw' = IF ItemExpired(th[c].item, now) THEN Without(th[c].key) ELSE sw

\* --------------------------------------------------------------------- set
\* set with value v: the value is encoded, the expiration computed, and the
\* entry written (memory, redis, memcache) or the file opened, created and
\* truncated (file).  os.OpenFile's error is returned inside a new error,
\* the store's error as it is, and nothing is written then.
Set(c, v) ==
    /\ ~fatal /\ th[c].pc = "set"
    /\ LET k == th[c].key
           m == MarshalIndent(v)
           t == [th[c] EXCEPT !.val = v]
           return(res) ==
               /\ th' = [th EXCEPT ![c] = Idle]
               /\ mu' = Unlocked(t.op)
               /\ ret' = [op |-> t.op, key |-> k, val |-> v,
                          start |-> t.start, seen |-> t.seen, res |-> res,
                          out |-> "",
                          obs |-> lastw]
       IN
       IF m.err # "nil"
       THEN /\ return(m.err)
            /\ UNCHANGED <<items, files, store, lastw>>
       ELSE CASE cacheType = cacheTypeDefault ->
                    /\ items' = [items EXCEPT
                                   ![k] = CacheItem(m.val, ExpirationAt(now))]
                    /\ lastw' = Written(k, v, t.op)
                    /\ return("nil")
                    /\ UNCHANGED <<files, store>>
              [] cacheType = cacheTypeFile ->
                    IF ~env.dirWritable
                    THEN /\ return(Errorf(ErrCreatingFile, OpenError(k)))
                         /\ UNCHANGED <<items, files, store, lastw>>
                    ELSE /\ files' = [files EXCEPT ![k] = File("", now)]
                         /\ Continue(c, [t EXCEPT !.pc = "set_write"])
                         /\ UNCHANGED <<items, store, lastw>>
              [] OTHER ->
                    IF ~env.storeUp
                    THEN /\ return(StoreError)
                         /\ UNCHANGED <<items, files, store, lastw>>
                    ELSE /\ store' = [store EXCEPT
                                        ![k] = Entry(m.val, StoreExpireAt(now))]
                         /\ lastw' = Written(k, v, t.op)
                         /\ return("nil")
                         /\ UNCHANGED <<items, files>>
    /\ UNCHANGED <<cacheType, expiration, env, cacheFiles, cleaner,
                   now, tasks, nops, fatal>>
    /\ sw' = IF cacheType = cacheTypeDefault /\ MarshalIndent(v).err = "nil"
             THEN Ranged(MapKeys \cup {th[c].key}) ELSE sw

\* The bytes a Write of val that fails can have put in the file before it
\* failed: any prefix of val but val itself.
PartialWrites(val) == {SubSeq(val, 1, n) : n \in 0..(Len(val) - 1)}

\* set, file backend: file.Write(val) on the open file.  A file removed
\* since it was opened is not in the directory any more: the bytes go to the
\* unlinked file.  A Write that fails returns its error: the file holds the
\* bytes written before the failure (which may be none), its modification
\* time is that of the Write, and the key does not join c.cacheFiles.
\* history: start is the time of the Write.
SetWrite(c) ==
    /\ ~fatal /\ th[c].pc = "set_write"
    /\ LET k == th[c].key
           m == MarshalIndent(th[c].val)
       IN
       IF ~env.fileWritable
       THEN /\ \E p \in PartialWrites(m.val) :
                  files' = IF files[k].exists
                           THEN [files EXCEPT ![k] = File(p, now)] ELSE files
            /\ Return(c, WriteError(k), "")
       ELSE /\ files' = IF files[k].exists
                        THEN [files EXCEPT ![k] = File(m.val, now)] ELSE files
            /\ Continue(c, [th[c] EXCEPT !.pc = "set_record", !.start = now])
    /\ UNCHANGED <<cacheType, expiration, items, env, cacheFiles, store,
                   cleaner, now, sw, tasks, lastw, nops, fatal>>

\* (mutation) set on the file backend not recording the key in c.cacheFiles
SetRecordUntracked(c) ==
    /\ ~fatal /\ th[c].pc = "set_record"
    /\ LET k == th[c].key IN
       /\ cacheFiles' = cacheFiles
       /\ lastw' = IF k = Probe
                   THEN [Written(k, th[c].val, th[c].op)
                            EXCEPT !.at = th[c].start]
                   ELSE lastw
    /\ Return(c, "nil", "")
    /\ UNCHANGED <<cacheType, expiration, items, files, env, store, cleaner,
                   now, tasks, nops, fatal>>
    /\ sw' = sw

\* set, file backend, after the Write: c.cacheFiles[key] = struct{}{}, and
\* set returns nil.  history: the write of the entry succeeded, at the time
\* of the Write.
SetRecord(c) ==
    /\ ~fatal /\ th[c].pc = "set_record"
    /\ LET k == th[c].key IN
       /\ cacheFiles' = cacheFiles \cup {k}
       /\ lastw' = IF k = Probe
                   THEN [Written(k, th[c].val, th[c].op)
                            EXCEPT !.at = th[c].start]
                   ELSE lastw
    /\ Return(c, "nil", "")
    /\ UNCHANGED <<cacheType, expiration, items, files, env, store, cleaner,
                   now, tasks, nops, fatal>>
    /\ sw' = Ranged(MapKeys \cup {th[c].key})

\* ------------------------------------------------------------ Get and Pull
\* (mutation) a remote get that reports an expired entry as ErrCacheExpired
GetLookupStaleTest(c) ==
    /\ ~fatal /\ th[c].pc = "get"
    /\ LET k == th[c].key IN
       CASE cacheType = cacheTypeDefault ->
               IF ~items[k].found THEN Return(c, ErrCacheNotFound, "")
               ELSE Continue(c, [th[c] EXCEPT !.pc = "get_expired",
                                              !.item = items[k]])
         [] cacheType = cacheTypeFile ->
               IF ~files[k].exists THEN Return(c, ErrCacheNotFound, "")
               ELSE Continue(c, [th[c] EXCEPT !.pc = "get_expired",
                                              !.info = FileInfo(files[k])])
         [] OTHER ->
               IF store[k].found /\ StoreExpired(store[k], now)
               THEN Return(c, ErrCacheExpired, "")
               ELSE IF ~StoreGet(k).found THEN Return(c, ErrCacheNotFound, "")
               ELSE IF th[c].op = "Pull"
                    THEN Continue(c, [th[c] EXCEPT !.pc = "get_remove",
                                                   !.out = StoreGet(k).value])
                    ELSE Return(c, "nil", StoreGet(k).value)
    /\ UNCHANGED <<cacheType, expiration, items, files, env,
                   cacheFiles, store, cleaner, now, sw, tasks, lastw, nops, fatal>>

\* getDefaultCache / getFileCache / getRedisCache / getMemCache, first part:
\* the map lookup, os.Stat, or the remote store's Get.
GetLookup(c) ==
    /\ ~fatal /\ th[c].pc = "get"
    /\ LET k == th[c].key IN
       CASE cacheType = cacheTypeDefault ->
               IF ~items[k].found THEN Return(c, ErrCacheNotFound, "")
               ELSE Continue(c, [th[c] EXCEPT !.pc = "get_expired",
                                              !.item = items[k]])
         [] cacheType = cacheTypeFile ->
               IF ~files[k].exists THEN Return(c, ErrCacheNotFound, "")
               ELSE Continue(c, [th[c] EXCEPT !.pc = "get_expired",
                                              !.info = FileInfo(files[k])])
         [] OTHER ->
               IF ~StoreGet(k).found THEN Return(c, ErrCacheNotFound, "")
               ELSE IF th[c].op = "Pull"
                    THEN Continue(c, [th[c] EXCEPT !.pc = "get_remove",
                                                   !.out = StoreGet(k).value])
                    ELSE Return(c, "nil", StoreGet(k).value)
    /\ UNCHANGED <<cacheType, expiration, items, files, env,
                   cacheFiles, store, cleaner, now, sw, tasks, lastw, nops, fatal>>

\* (mutation) getDefaultCache reporting an expired item without deleting it
GetExpiredKeepsItem(c) ==
    /\ ~fatal /\ th[c].pc = "get_expired"
    /\ LET k == th[c].key IN
       IF cacheType = cacheTypeDefault
       THEN IF ItemExpired(th[c].item, now)
            THEN /\ items' = items
                 /\ Return(c, ErrCacheExpired, "")
                 /\ UNCHANGED <<files, lastw>>
            ELSE /\ IF th[c].op = "Pull"
                    THEN Continue(c, [th[c] EXCEPT !.pc = "get_remove",
                                                   !.out = th[c].item.value])
                    ELSE Return(c, "nil", th[c].item.value)
                 /\ UNCHANGED <<items, files, lastw>>
       ELSE IF FileExpired(th[c].info, now)
            THEN /\ files' = Remove(files, k, NoFile)
                 /\ Return(c, ErrCacheExpired, "")
                 /\ UNCHANGED <<items, lastw>>
            ELSE /\ Continue(c, At(c, "get_read"))
                 /\ UNCHANGED <<items, files, lastw>>
    /\ UNCHANGED <<cacheType, expiration, env, cacheFiles, store,
                   cleaner, now, tasks, nops, fatal>>
    /\ sw' = sw

\* getDefaultCache / getFileCache, second part: the clock is read; an expired
\* item (file) is removed and ErrCacheExpired returned.  Otherwise the memory
\* backend returns the value it looked up (a Pull going on to delete the key
\* first), and the file backend goes on to read the file.
GetExpired(c) ==
    /\ ~fatal /\ th[c].pc = "get_expired"
    /\ LET k == th[c].key IN
       IF cacheType = cacheTypeDefault
       THEN IF ItemExpired(th[c].item, now)
            THEN /\ items' = Remove(items, k, NoItem)
                 /\ Return(c, ErrCacheExpired, "")
                 /\ UNCHANGED <<files, lastw>>
            ELSE /\ IF th[c].op = "Pull"
                    THEN Continue(c, [th[c] EXCEPT !.pc = "get_remove",
                                                   !.out = th[c].item.value])
                    ELSE Return(c, "nil", th[c].item.value)
                 /\ UNCHANGED <<items, files, lastw>>
       ELSE IF FileExpired(th[c].info, now)
            THEN /\ files' = Remove(files, k, NoFile)
                 /\ Return(c, ErrCacheExpired, "")
                 /\ UNCHANGED <<items, lastw>>
            ELSE /\ Continue(c, At(c, "get_read"))
                 /\ UNCHANGED <<items, files, lastw>>
    /\ UNCHANGED <<cacheType, expiration, env, cacheFiles, store,
                   cleaner, now, tasks, nops, fatal>>
    /\ sw' = IF ItemExpired(th[c].item, now) THEN Without(th[c].key) ELSE sw

\* getFileCache, third part: ioutil.ReadFile; a file that is gone by now is
\* ErrCacheNotFound.
GetRead(c) ==
    /\ ~fatal /\ th[c].pc = "get_read"
    /\ LET k == th[c].key IN
       IF ~files[k].exists
       THEN Return(c, ErrCacheNotFound, "")
       ELSE IF th[c].op = "Pull"
            THEN Continue(c, [th[c] EXCEPT !.pc = "get_remove",
                                           !.out = files[k].content])
            ELSE Return(c, "nil", files[k].content)
    /\ UNCHANGED <<cacheType, expiration, items, files, env,
                   cacheFiles, store, cleaner, now, sw, tasks, lastw, nops, fatal>>

\* (mutation) removeCurrent clearing the directory or the store, not one key
GetRemoveEverything(c) ==
    /\ ~fatal /\ th[c].pc = "get_remove"
    /\ LET k == th[c].key IN
       /\ items' = IF cacheType = cacheTypeDefault
                   THEN [j \in Keys |-> NoItem] ELSE items
       /\ files' = IF cacheType = cacheTypeFile
                   THEN [j \in Keys |-> NoFile] ELSE files
       /\ store' = IF cacheType \in {cacheTypeRedis, cacheTypeMemcache}
                   THEN [j \in Keys |-> NoEntry] ELSE store
       /\ lastw' = Removed(k, "Pull")
       /\ Return(c, "nil", th[c].out)
    /\ UNCHANGED <<cacheType, expiration, env, cacheFiles,
                   cleaner, now, tasks, nops, fatal>>
    /\ sw' = Ranged(IF cacheType = cacheTypeDefault THEN {} ELSE MapKeys)

\* Pull, last part (removeCurrent): delete(c.items, key), os.Remove,
\* redisClient.Del or memCacheClient.Delete; the value read is returned.
GetRemove(c) ==
    /\ ~fatal /\ th[c].pc = "get_remove"
    /\ LET k == th[c].key IN
       /\ items' = IF cacheType = cacheTypeDefault
                   THEN Remove(items, k, NoItem) ELSE items
       /\ files' = IF cacheType = cacheTypeFile
                   THEN Remove(files, k, NoFile) ELSE files
       /\ store' = IF cacheType \in {cacheTypeRedis, cacheTypeMemcache}
                   THEN Remove(store, k, NoEntry) ELSE store
       /\ lastw' = Removed(k, "Pull")
       /\ Return(c, "nil", th[c].out)
    /\ UNCHANGED <<cacheType, expiration, env, cacheFiles,
                   cleaner, now, tasks, nops, fatal>>
    /\ sw' = Without(th[c].key)

\* -------------------------------------------------------- Delete and Flush
\* (mutation) Delete without the case of the file backend
DeleteNoFile(c) ==
    /\ ~fatal /\ th[c].pc = "delete"
    /\ LET k == th[c].key IN
       /\ items' = IF cacheType = cacheTypeDefault
                   THEN Remove(items, k, NoItem) ELSE items
       /\ files' = files
       /\ store' = IF cacheType \in {cacheTypeRedis, cacheTypeMemcache}
                   THEN Remove(store, k, NoEntry) ELSE store
       /\ lastw' = Removed(k, "Delete")
    /\ Return(c, "nil", "")
    /\ UNCHANGED <<cacheType, expiration, env, cacheFiles, cleaner,
                   now, tasks, nops, fatal>>
    /\ sw' = Without(th[c].key)

\* Delete: the key removed from the map, the directory or the remote store;
\* there is no result, and the errors of os.Remove and of the stores are
\* dropped.
Delete(c) ==
    /\ ~fatal /\ th[c].pc = "delete"
    /\ LET k == th[c].key IN
       /\ items' = IF cacheType = cacheTypeDefault
                   THEN Remove(items, k, NoItem) ELSE items
       /\ files' = IF cacheType = cacheTypeFile
                   THEN Remove(files, k, NoFile) ELSE files
       /\ store' = IF cacheType \in {cacheTypeRedis, cacheTypeMemcache}
                   THEN Remove(store, k, NoEntry) ELSE store
       /\ lastw' = Removed(k, "Delete")
    /\ Return(c, "nil", "")
    /\ UNCHANGED <<cacheType, expiration, env, cacheFiles, cleaner,
                   now, tasks, nops, fatal>>
    /\ sw' = Without(th[c].key)

\* (mutation) Flush of the file backend removing the files that are not in
\* c.cacheFiles instead of those that are
FlushOthers(c) ==
    /\ ~fatal /\ th[c].pc = "flush"
    /\ items' = IF cacheType = cacheTypeDefault
                THEN [k \in Keys |-> NoItem] ELSE items
    /\ files' = IF cacheType = cacheTypeFile
                THEN [k \in Keys |-> IF k \notin cacheFiles THEN NoFile
                                     ELSE files[k]]
                ELSE files
    /\ store' = IF cacheType \in {cacheTypeRedis, cacheTypeMemcache}
                THEN [k \in Keys |-> NoEntry] ELSE store
    /\ lastw' = Removed(Probe, "Flush")
    /\ Return(c, "nil", "")
    /\ UNCHANGED <<cacheType, expiration, env, cacheFiles, cleaner,
                   now, tasks, nops, fatal>>
    /\ sw' = RangedOld

\* Flush: a new empty map; every file named in c.cacheFiles removed; FlushAll.
Flush(c) ==
    /\ ~fatal /\ th[c].pc = "flush"
    /\ items' = IF cacheType = cacheTypeDefault
                THEN [k \in Keys |-> NoItem] ELSE items
    /\ files' = IF cacheType = cacheTypeFile
                THEN [k \in Keys |-> IF k \in cacheFiles THEN NoFile
                                     ELSE files[k]]
                ELSE files
    /\ store' = IF cacheType \in {cacheTypeRedis, cacheTypeMemcache}
                THEN [k \in Keys |-> NoEntry] ELSE store
    /\ lastw' = Removed(Probe, "Flush")
    /\ Return(c, "nil", "")
    /\ UNCHANGED <<cacheType, expiration, env, cacheFiles, cleaner,
                   now, tasks, nops, fatal>>
    /\ sw' = RangedOld

\* --------------------------------------------------- the cleaning goroutine
\* The runtime's timer: at its time, c.cleaner.interval sends on its channel
\* interval.C (buffer of one) and is no longer armed.
TimerFire ==
    /\ ~fatal /\ cleaner.armed /\ now >= cleaner.fireAt
    /\ cleaner' = [cleaner EXCEPT !.armed = FALSE, !.fired = TRUE]
    /\ ret' = NoRet
    /\ UNCHANGED <<cacheType, expiration, items, files, env,
                   cacheFiles, store, mu, now, th, sw, tasks, lastw, nops,
                   fatal>>

\* case <-c.cleaner.interval.C: the goroutine receives the timer's value and
\* starts a pass.
SweepTimer ==
    /\ ~fatal /\ CleanerRuns /\ sw.pc = "select"
    /\ cleaner.fired
    /\ cleaner' = [cleaner EXCEPT !.fired = FALSE]
    /\ sw' = [SwIdle EXCEPT !.pc = "range",
                             !.iter = [k \in Keys |-> IF InMap(k) THEN "todo"
                                                      ELSE "none"]]
    /\ ret' = NoRet
    /\ UNCHANGED <<cacheType, expiration, items, files, env,
                   cacheFiles, store, mu, now, th, tasks, lastw, nops, fatal>>

\* The keys the range loop has still to produce, and those it may produce.
SweepRest == {k \in Keys : sw.iter[k] = "todo"}

SweepMay == {k \in Keys : sw.iter[k] \in {"todo", "new"}}

\* for key := range c.items { c.has(key) }: the next key, and the lookup of
\* has.  for key := range c.cacheFiles { go c.has(key) }: the next key, and a
\* new goroutine for it.  No lock is held.
SweepRange ==
    /\ ~fatal /\ sw.pc = "range"
    /\ \E k \in SweepMay :
          IF cacheType = cacheTypeDefault
          THEN /\ sw' = [sw EXCEPT !.pc = "has_expired", !.key = k,
                                   !.item = items[k],
                                   !.iter[k] = "done"]
               /\ tasks' = tasks
          ELSE /\ sw' = [sw EXCEPT !.iter[k] = "done"]
               /\ tasks' = tasks (+) SetToBag({[key |-> k, pc |-> "has",
                                                info |-> NoInfo]})
    /\ ret' = NoRet
    /\ UNCHANGED <<cacheType, expiration, items, files, env,
                   cacheFiles, store, cleaner, mu, now, th, lastw, nops, fatal>>

\* has in the cleaning goroutine (memory), second part: an expired item is
\* deleted from the map.
SweepHasExpired ==
    /\ ~fatal /\ sw.pc = "has_expired"
    /\ items' = IF ItemExpired(sw.item, now)
                THEN Remove(items, sw.key, NoItem) ELSE items
    /\ sw' = [(IF ItemExpired(sw.item, now) THEN Without(sw.key) ELSE sw)
                 EXCEPT !.pc = "range", !.key = NoKey, !.item = NoItem]
    /\ ret' = NoRet
    /\ UNCHANGED <<cacheType, expiration, files, env, cacheFiles,
                   store, cleaner, mu, now, th, tasks, lastw, nops, fatal>>

\* The range loop is over: c.cleaner.interval.Reset(c.expiration).
SweepReset ==
    /\ ~fatal /\ sw.pc = "range" /\ SweepRest = {}
    /\ cleaner' = [cleaner EXCEPT !.armed = TRUE, !.fireAt = now + expiration]
    /\ sw' = SwIdle
    /\ ret' = NoRet
    /\ UNCHANGED <<cacheType, expiration, items, files, env,
                   cacheFiles, store, mu, now, th, tasks, lastw, nops, fatal>>

\* A goroutine "go c.has(key)" of the file backend's sweep: os.Stat.
TaskLookup(t) ==
    /\ ~fatal /\ BagIn(t, tasks) /\ t.pc = "has"
    /\ tasks' = IF files[t.key].exists
                THEN (tasks (-) SetToBag({t}))
                        (+) SetToBag({[t EXCEPT !.pc = "has_expired",
                                                !.info = FileInfo(files[t.key])]})
                ELSE tasks (-) SetToBag({t})
    /\ ret' = NoRet
    /\ UNCHANGED <<cacheType, expiration, items, files, env,
                   cacheFiles, store, cleaner, mu, now, th, sw, lastw, nops,
                   fatal>>

\* The same goroutine, second part: an expired file is removed.
TaskExpired(t) ==
    /\ ~fatal /\ BagIn(t, tasks) /\ t.pc = "has_expired"
    /\ files' = IF FileExpired(t.info, now)
                THEN Remove(files, t.key, NoFile) ELSE files
    /\ tasks' = tasks (-) SetToBag({t})
    /\ ret' = NoRet
    /\ UNCHANGED <<cacheType, expiration, items, env, cacheFiles,
                   store, cleaner, mu, now, th, sw, lastw, nops, fatal>>

\* case <-c.cleaner.stop: stopCleaningRoutine's send on the unbuffered
\* channel meets the goroutine's select, and the goroutine calls
\* c.cleaner.interval.Stop(); the for loop goes on to the next select.  Stop
\* keeps the timer from firing; a value the timer has sent already stays in
\* interval.C, or is discarded there by Stop (the timers of Go 1.23).
SweepStop ==
    /\ ~fatal /\ CleanerRuns /\ sw.pc = "select" /\ ~cleaner.stopped
    /\ \E drained \in BOOLEAN :
          cleaner' = [cleaner EXCEPT !.armed = FALSE, !.stopped = TRUE,
                                     !.fired = @ /\ ~drained]
    /\ ret' = NoRet
    /\ UNCHANGED <<cacheType, expiration, items, files, env,
                   cacheFiles, store, mu, now, th, sw, tasks, lastw, nops,
                   fatal>>

\* ---------------------------------------------------- the clock, the runtime
Tick ==
    /\ ~fatal
    /\ \E t \in Instants : t > now /\ now' = t
    /\ ret' = NoRet
    /\ UNCHANGED <<cacheType, expiration, items, files, env,
                   cacheFiles, store, cleaner, mu, th, sw, tasks, lastw, nops,
                   fatal>>

\* Time passes until the cleaner's timer is due.
TickTimer ==
    /\ ~fatal
    /\ cleaner.armed /\ now < cleaner.fireAt /\ cleaner.fireAt <= MaxTime
    /\ now' = cleaner.fireAt
    /\ ret' = NoRet
    /\ UNCHANGED <<cacheType, expiration, items, files, env,
                   cacheFiles, store, cleaner, mu, th, sw, tasks, lastw, nops,
                   fatal>>

\* The access to the Go map (c.items for the memory backend, c.cacheFiles for
\* the file backend) that a caller's next step makes.
CallerAccess(c) ==
    LET t == th[c] IN
    IF cacheType = cacheTypeDefault
    THEN CASE t.pc \in {"has", "get"} -> "read"
           [] t.pc = "has_expired" ->
                 IF ItemExpired(t.item, now) THEN "write" ELSE "none"
           [] t.pc = "get_expired" ->
                 IF ItemExpired(t.item, now) THEN "write" ELSE "none"
           [] t.pc \in {"set", "delete", "get_remove"} -> "write"
           [] OTHER -> "none"
    ELSE IF cacheType = cacheTypeFile
    THEN CASE t.pc = "set_record" -> "write"
           [] t.pc = "flush" -> "read"
           [] OTHER -> "none"
    ELSE "none"

\* The same for the cleaning goroutine.
SweepAccess ==
    CASE sw.pc = "range" -> "read"
      [] sw.pc = "has_expired" ->
            IF ItemExpired(sw.item, now) THEN "write" ELSE "none"
      [] OTHER -> "none"

\* The map has no key: a lookup, a delete or a range returns at once.
MapEmpty ==
    IF cacheType = cacheTypeDefault THEN \A k \in Keys : ~items[k].found
    ELSE cacheFiles = {}

\* The caller's next step assigns to a key of the map.
CallerAssigns(c) ==
    th[c].pc \in {"set", "set_record"}

\* Two threads are about to access the map, one of them writing, with
\* nothing ordering the two accesses; the map has a key, or the write is an
\* assignment.
MapRace ==
    \/ \E c \in Callers :
          /\ CallerAccess(c) # "none" /\ SweepAccess # "none"
          /\ "write" \in {CallerAccess(c), SweepAccess}
          /\ ~MapEmpty \/ CallerAssigns(c)
    \/ \E c, d \in Callers :
          /\ c # d
          /\ CallerAccess(c) # "none" /\ CallerAccess(d) # "none"
          /\ "write" \in {CallerAccess(c), CallerAccess(d)}
          /\ ~MapEmpty

\* The Go runtime detects a map access concurrent with a map write and ends
\* the process ("fatal error: concurrent map read and map write").
Fatal ==
    /\ ~fatal /\ MapRace
    /\ fatal' = TRUE
    /\ ret' = NoRet
    /\ UNCHANGED <<cacheType, expiration, items, files, env,
                   cacheFiles, store, cleaner, mu, now, th, sw, tasks, lastw,
                   nops>>

\* ------------------------------------------------------------ specification
Next ==
    \/ \E c \in Callers, k \in Keys : Call(c, "Add", k)
    \/ \E c \in Callers, k \in Keys : Call(c, "Set", k)
    \/ \E c \in Callers, k \in Keys : Call(c, "Get", k)
    \/ \E c \in Callers, k \in Keys : Call(c, "Pull", k)
    \/ \E c \in Callers, k \in Keys : Call(c, "Has", k)
    \/ \E c \in Callers, k \in Keys : Call(c, "Delete", k)
    \/ \E c \in Callers : Call(c, "Flush", NoKey)
    \/ \E c \in Callers : HasLookup(c)
    \/ \E c \in Callers : HasExpired(c)
    \/ \E c \in Callers, v \in Values : Set(c, v)
    \/ \E c \in Callers : SetWrite(c)
    \/ \E c \in Callers : SetRecord(c)
    \/ \E c \in Callers : GetLookup(c)
    \/ \E c \in Callers : GetExpired(c)
    \/ \E c \in Callers : GetRead(c)
    \/ \E c \in Callers : GetRemove(c)
    \/ \E c \in Callers : Delete(c)
    \/ \E c \in Callers : Flush(c)
    \/ TimerFire
    \/ SweepTimer
    \/ SweepRange
    \/ SweepHasExpired
    \/ SweepReset
    \/ \E t \in BagToSet(tasks) : TaskLookup(t)
    \/ \E t \in BagToSet(tasks) : TaskExpired(t)
    \/ Tick
    \/ Fatal

Spec == Init /\ [][Next]_vars

\* ------------------------------------------- specification with scheduling
\* The program with the stop signal of the cleaner and a clock that follows
\* the cleaner's timer, under the scheduling of the Go runtime: a goroutine
\* that can run is run in the end (a caller inside an operation, the
\* cleaning goroutine, the goroutines of a file sweep), a timer that is due
\* fires, and time passes.  Nothing makes a caller call, the stop signal
\* come, or the runtime find a concurrent map access.
CallerStep(c) ==
    \/ HasLookup(c) \/ HasExpired(c)
    \/ \E v \in Values : Set(c, v)
    \/ SetWrite(c) \/ SetRecord(c)
    \/ GetLookup(c) \/ GetExpired(c) \/ GetRead(c) \/ GetRemove(c)
    \/ Delete(c) \/ Flush(c)

SweepStep == SweepTimer \/ SweepRange \/ SweepHasExpired \/ SweepReset

TaskStep == \E t \in BagToSet(tasks) : TaskLookup(t) \/ TaskExpired(t)

NextLive == Next \/ SweepStop \/ TickTimer

Fairness ==
    /\ \A c \in Callers : WF_vars(CallerStep(c))
    /\ WF_vars(SweepStep)
    /\ WF_vars(TaskStep)
    /\ WF_vars(TimerFire)
    /\ WF_vars(Tick \/ TickTimer)

SpecLive == InitLive /\ [][NextLive]_vars /\ Fairness

\* ------------------------------------- specification of Add, Set and Delete
\* The program with callers that call Add, Set and Delete on one key, and
\* have AddOps calls to make.
InitAdd == InitWith(MaxOps - AddOps)

NextAdd ==
    \/ \E c \in Callers, op \in {"Add", "Set", "Delete"} : Call(c, op, Probe)
    \/ \E c \in Callers : HasLookup(c)
    \/ \E c \in Callers : HasExpired(c)
    \/ \E c \in Callers, v \in Values : Set(c, v)
    \/ \E c \in Callers : SetWrite(c)
    \/ \E c \in Callers : SetRecord(c)
    \/ \E c \in Callers : Delete(c)
    \/ TimerFire
    \/ SweepTimer
    \/ SweepRange
    \/ SweepHasExpired
    \/ SweepReset
    \/ \E t \in BagToSet(tasks) : TaskLookup(t)
    \/ \E t \in BagToSet(tasks) : TaskExpired(t)
    \/ Tick
    \/ Fatal

SpecAdd == InitAdd /\ [][NextAdd]_vars

\* ------------------------------------- the memcache expiration, full width
\* The expiration of a memcache backend at the resolution of time.Duration
\* (an int64 of nanoseconds), where the model above has whole seconds:
\* NewMemCache keeps the duration it is given, and every set converts it with
\* int32(c.expiration.Seconds()).

\* time.Second, in nanoseconds
Second == 1000000000

\* the range of int32
MaxInt32 == 2147483647
MinInt32 == -MaxInt32 - 1

\* The largest multiple of 2^31 seconds in the durations checked.
MaxHi == 2

\* A time.Duration: its sign and its magnitude, as hi * 2^31 + lo whole
\* seconds (0 <= lo < 2^31) and nsec nanoseconds (0 <= nsec < Second).
Duration(neg, hi, lo, nsec) ==
    [neg |-> neg, hi |-> hi, lo |-> lo, nsec |-> nsec]

ZeroDuration == Duration(FALSE, 0, 0, 0)

\* The durations a memcache backend is constructed with: negative, zero,
\* under a second, a few seconds, around 2^24 seconds (where the float64
\* of Seconds() stops telling nanoseconds apart), around and above 2^31.
Durations ==
    { d \in { Duration(neg, hi, lo, nsec) :
                 neg \in BOOLEAN, hi \in 0..MaxHi,
                 lo \in {0, 1, 30, 2^24 - 1, 2^24, MaxInt32},
                 nsec \in {0, 1, Second \div 2, Second - 1} } :
        d.neg => d # Duration(TRUE, 0, 0, 0) }

\* NewMemCache: if expiration <= defaultExpiration { expiration =
\* defaultExpiration }
NormalizeDuration(d) ==
    IF d.neg \/ d = ZeroDuration THEN ZeroDuration ELSE d

\* floor(log2(n)), n >= 1
RECURSIVE Log2(_)
Log2(n) == IF n < 2 THEN 0 ELSE 1 + Log2(n \div 2)

\* The binary exponent of the whole seconds of d (at least one second).
Exponent(d) == IF d.hi > 0 THEN 31 + Log2(d.hi) ELSE Log2(d.lo)

\* Duration.Seconds() is float64(sec) + float64(nsec)/1e9, with the 53 bits
\* of a float64: the sum is rounded up to the next whole second when the
\* nanoseconds are nearer to it than half the spacing 2^(e-52) of the
\* float64 values at sec.
RoundsUp(d) ==
    /\ d.hi > 0 \/ d.lo > 0
    /\ Exponent(d) >= 23
    /\ Second - d.nsec <= (Second - 1) \div 2^(53 - Exponent(d))

\* The integer part of d.Seconds(), as hi * 2^31 + lo.
Seconds(d) ==
    IF ~RoundsUp(d) THEN [hi |-> d.hi, lo |-> d.lo]
    ELSE IF d.lo = MaxInt32 THEN [hi |-> d.hi + 1, lo |-> 0]
         ELSE [hi |-> d.hi, lo |-> d.lo + 1]

\* int32(d.Seconds()): the conversion of a float64 to int32 drops the
\* fraction; of a value that int32 cannot hold, the result depends on the
\* implementation: the integer indefinite 0x80000000 (amd64), the saturated
\* value (arm64), or the low 32 bits of the int64 (wasm).
Int32(d) ==
    LET s == Seconds(d) IN
    IF s.hi = 0 THEN {s.lo}
    ELSE {MinInt32, MaxInt32,
          IF s.hi % 2 = 1 THEN s.lo - MaxInt32 - 1 ELSE s.lo}

\* memcache.Item{Key, Value, Expiration}, as the store receives it
MemcacheItem(key, value, exp) ==
    [Key |-> key, Value |-> value, Expiration |-> exp]

\* What memcached keeps of memCacheClient.Set: the item, and the time, in
\* seconds, at which it received it.
MemcachedEntry(item, t) == [item |-> item, at |-> t]

\* The largest Expiration, in seconds, that memcached reads as relative to
\* the time of the write (thirty days); a larger one is a Unix time.
RelativeLimit == 60 * 60 * 24 * 30

\* memCacheClient.Get at time t: whether memcached has dropped the entry e.
\* An Expiration of 0 keeps the item for ever, a negative one drops it at
\* once, one up to RelativeLimit drops it that many seconds after the write;
\* a larger one is compared with the clock of the server, which the program
\* does not set: both outcomes.
MemcachedDropped(e, t) ==
    LET exp == e.item.Expiration IN
    IF exp = 0 THEN {FALSE}
    ELSE IF exp < 0 THEN {TRUE}
    ELSE IF exp <= RelativeLimit THEN {t >= e.at + exp}
    ELSE BOOLEAN

\* A memcache backend constructed by NewMemCache with a duration of
\* Durations: c.expiration is that duration, normalised.
InitTTL ==
    /\ cacheType = cacheTypeMemcache
    /\ \E d \in Durations : expiration = NormalizeDuration(d)
    /\ cleaner = NoCleaner
    /\ env \in Environments(cacheTypeMemcache)
    /\ items = [k \in Keys |-> NoItem]
    /\ files = [k \in Keys |-> NoFile]
    /\ cacheFiles = {}
    /\ store = [k \in Keys |-> NoEntry]
    /\ mu = [w |-> FALSE, r |-> 0]
    /\ now = 0
    /\ th = [c \in Callers |-> Idle]
    /\ ret = NoRet
    /\ sw = SwIdle
    /\ tasks = EmptyBag
    /\ lastw = NoWrite
    /\ nops = 0
    /\ fatal = FALSE

\* set on the memcache backend, once Set holds the lock, with value v: the
\* value is encoded and memCacheClient.Set receives the item, its Expiration
\* being int32(c.expiration.Seconds()); the error of a store that fails is
\* returned, and nothing is stored.  The deferred Unlock runs.
MemCacheSet(c, v) ==
    /\ ~fatal /\ th[c].pc = "set"
    /\ LET k == th[c].key
           m == MarshalIndent(v)
           return(res) ==
               ret' = [op |-> "Set", key |-> k, val |-> v,
                       start |-> th[c].start, seen |-> th[c].seen,
                       res |-> res, out |-> "", obs |-> lastw]
       IN
       IF m.err # "nil"
       THEN /\ return(m.err)
            /\ UNCHANGED <<store, lastw>>
       ELSE IF ~env.storeUp
       THEN /\ return(StoreError)
            /\ UNCHANGED <<store, lastw>>
       ELSE /\ \E e \in Int32(expiration) :
                  store' = [store EXCEPT ![k] =
                               MemcachedEntry(MemcacheItem(k, m.val, e), now)]
            /\ lastw' = Written(k, v, "Set")
            /\ return("nil")
    /\ th' = [th EXCEPT ![c] = Idle]
    /\ mu' = Unlocked("Set")
    /\ UNCHANGED <<cacheType, expiration, items, files, env,
                   cacheFiles, cleaner, now, sw, tasks, nops, fatal>>

\* getMemCache, once Get holds the shared lock: the answer of
\* memCacheClient.Get.  Get returns the Value of the item found, and
\* ErrCacheNotFound for every error of the client (the store cannot be
\* reached, or holds no such item any more).  The deferred RUnlock runs.
MemCacheGet(c) ==
    /\ ~fatal /\ th[c].pc = "get"
    /\ LET k == th[c].key IN
       IF ~env.storeUp \/ store[k] = NoEntry
       THEN Return(c, ErrCacheNotFound, "")
       ELSE \E dropped \in MemcachedDropped(store[k], now) :
                IF dropped THEN Return(c, ErrCacheNotFound, "")
                ELSE Return(c, "nil", store[k].item.Value)
    /\ UNCHANGED <<cacheType, expiration, items, files, env, cacheFiles,
                   store, cleaner, now, sw, tasks, lastw, nops, fatal>>

\* Callers call Set and Get; the clock goes on while a call waits for the
\* store.
NextTTL ==
    \/ \E c \in Callers, k \in Keys : Call(c, "Set", k)
    \/ \E c \in Callers, k \in Keys : Call(c, "Get", k)
    \/ \E c \in Callers, v \in Values : MemCacheSet(c, v)
    \/ \E c \in Callers : MemCacheGet(c)
    \/ Tick

SpecTTL == InitTTL /\ [][NextTTL]_vars

\* ------------------------------------------------------------------ claims
\* The claims are about key Probe.  In the state an operation returns into,
\* ret is the operation with its result, ret.obs the history of Probe the
\* returning step found, and now the time of that step.

\* The last write of Probe was by operation op, and no caller's Delete, Pull
\* or Flush has removed the entry since.
Kept(w, op) == w.op = op /\ w.removedBy = "none"

\* An entry written at time t0 has not expired at time t, by the rule of the
\* backend that holds it (memcached drops an entry at its expiry; a file's
\* modification time is less than a unit before t0).
BeforeExpiry(t0, t) ==
    \/ expiration = 0
    \/ IF cacheType \in {cacheTypeFile, cacheTypeMemcache}
       THEN t < t0 + expiration
       ELSE t <= t0 + expiration

\* The entry of key k in the backend: found or not, payload, expiry timestamp
\* (of a file: its modification time plus the expiration).
EntryOf(k) ==
    CASE cacheType = cacheTypeDefault ->
            [found |-> items[k].found, value |-> items[k].value,
             expireAt |-> items[k].expiration]
      [] cacheType = cacheTypeFile ->
            [found |-> files[k].exists, value |-> files[k].content,
             expireAt |-> IF files[k].exists /\ expiration > 0
                          THEN files[k].modTime + expiration ELSE 0]
      [] OTHER -> store[k]

\* The entry a write of value v at time t0 leaves in the backend.
EntryWritten(v, t0) ==
    [found |-> TRUE, value |-> MarshalIndent(v).val,
     expireAt |-> IF expiration > 0 THEN t0 + expiration ELSE 0]

\* C1: on every backend, a Get of k that returns before the entry written by
\* the last successful Set(k, v) expires, with no Set, Add, Pull, Delete or
\* Flush of k in between, returns exactly the encoding of v.
C1_SetThenGetReturnsEncoding ==
    (/\ ret.op = "Get" /\ ret.key = Probe
     /\ Kept(ret.obs, "Set") /\ BeforeExpiry(ret.obs.at, now))
    => (ret.res = "nil" /\ ret.out = MarshalIndent(ret.obs.val).val)

\* C2: after a successful Add(k, v1), a second Add(k, v2) before the entry
\* expires, with no Delete, Pull or Flush in between, fails with
\* ErrCacheAlreadyExists and leaves the payload and the expiry timestamp the
\* first Add wrote.
C2_SecondAddFailsAndKeepsEntry ==
    (/\ ret.op = "Add" /\ ret.key = Probe
     /\ Kept(ret.obs, "Add") /\ BeforeExpiry(ret.obs.at, now))
    => (/\ ret.res = ErrCacheAlreadyExists
        /\ EntryOf(Probe) = EntryWritten(ret.obs.val, ret.obs.at))

\* The key was absent when the write w was made: w was the first write of
\* the key, or a caller's Delete, Pull or Flush had removed the entry.
AbsentBefore(w) == w.after \in {"nothing", "Delete", "Pull", "Flush"}

\* C3: of the Adds of one key that callers make with the key absent
\* beforehand and no expiry, Delete, Pull or Flush in between, at most one
\* succeeds and every other returns ErrCacheAlreadyExists: no Add succeeds
\* while the entry that an earlier successful Add wrote on the absent key is
\* kept and has not expired.
C3_AtMostOneAddSucceeds ==
    (/\ ret.op = "Add" /\ ret.key = Probe
     /\ Kept(ret.obs, "Add") /\ AbsentBefore(ret.obs)
     /\ BeforeExpiry(ret.obs.at, now))
    => ret.res = ErrCacheAlreadyExists

\* C4: on a local backend with a positive expiration T (the cleaner running),
\* after Set(k, v) at time t0 and with no Delete(k), Pull(k) or Flush by a
\* caller, every Has(k) at a time t0 <= t <= t0 + T returns true.
C4_HasTrueUntilExpiry ==
    (/\ cacheType \in {cacheTypeDefault, cacheTypeFile} /\ expiration > 0
     /\ ret.op = "Has" /\ ret.key = Probe
     /\ Kept(ret.obs, "Set") /\ now <= ret.obs.at + expiration)
    => ret.res = "true"

\* The scenario of TestDefaultCacheExpired: the memory backend constructed
\* with an expiration of 5, and the last write of Probe a Set that no caller
\* has removed.
ExpiredScenario ==
    /\ cacheType = cacheTypeDefault /\ expiration = TestExpiration
    /\ ret.key = Probe /\ Kept(ret.obs, "Set")

\* C6: with an expiration of 5 on the memory backend, after Set(k, v) a
\* Has(k) made immediately returns true, and a Pull(k) made after waiting
\* the 5 units (the clock it is called at is past that of the Set plus 5, the
\* wait being over) fails with ErrCacheExpired and returns no payload.  The
\* Has and the Pull are each taken as the second operation on the cache: the
\* Has of the scenario, made before the expiry, changes nothing.
C6_PullAfterExpiryFailsWithExpired ==
    (ExpiredScenario /\ nops = 2)
    => (/\ (ret.op = "Has" /\ now = ret.obs.at) => ret.res = "true"
        /\ (ret.op = "Pull" /\ ret.start > ret.obs.at + TestExpiration)
              => (ret.res = ErrCacheExpired /\ ret.out = ""))

\* C7: after a successful Set(k, v), a Pull(k) before expiry returns the
\* encoding of v and removes the entry; a Has(k) that follows the Pull then
\* returns false, and a Pull(k) that follows it fails with ErrCacheNotFound.
C7_PullReturnsAndRemoves ==
    /\ (/\ ret.op = "Pull" /\ ret.key = Probe
        /\ Kept(ret.obs, "Set") /\ BeforeExpiry(ret.obs.at, now))
       => (/\ ret.res = "nil"
           /\ ret.out = MarshalIndent(ret.obs.val).val
           /\ ~EntryOf(Probe).found)
    /\ (/\ ret.key = Probe /\ ret.obs.op = "Set"
        /\ ret.seen = "Pull" /\ ret.obs.removedBy = "Pull")
       => (/\ ret.op = "Has" => ret.res = "false"
           /\ ret.op = "Pull" => ret.res = ErrCacheNotFound)

\* C8: a Get(k) that succeeds leaves the cache unchanged: in the state it
\* returns into, unless a caller's Delete, Pull or Flush has removed the
\* entry, the entry of k has the payload and the expiry timestamp of its last
\* write (so that further Gets return the same bytes, and Has true).
C8_GetLeavesEntryUnchanged ==
    (/\ ret.op = "Get" /\ ret.key = Probe /\ ret.res = "nil"
     /\ ret.obs.op # "none" /\ ret.obs.removedBy = "none")
    => EntryOf(Probe) = EntryWritten(ret.obs.val, ret.obs.at)

\* C9: a cache constructed with an expiration of 0 or less records no expiry
\* timestamp and starts no cleaner, and no entry expires: after Set(k, v),
\* until a caller's Delete, Pull or Flush removes the entry, Has(k) returns
\* true and Get(k) the encoding of v, whatever the time.
C9_NoExpiryWithoutExpiration ==
    expiration <= defaultExpiration
    => (/\ \A k \in Keys : items[k].expiration = 0 /\ store[k].expireAt = 0
        /\ ~cleaner.on /\ sw = SwIdle /\ tasks = EmptyBag
        /\ (ret.key = Probe /\ Kept(ret.obs, "Set"))
              => (/\ ret.op = "Has" => ret.res = "true"
                  /\ ret.op = "Get"
                        => (/\ ret.res = "nil"
                            /\ ret.out = MarshalIndent(ret.obs.val).val)))

\* A Get returned the payload of a Set made more than an expiration of the
\* tests earlier, on a cache constructed with an expiration of 0 or less.
C9_Witness ==
    /\ expiration <= defaultExpiration
    /\ ret.op = "Get" /\ ret.key = Probe /\ Kept(ret.obs, "Set")
    /\ ret.obs.at = 0 /\ ret.start > TestExpiration
    /\ ret.res = "nil" /\ ret.out = MarshalIndent(ret.obs.val).val

\* No entry is left: the map and the remote store are empty, and no file of
\* a key of c.cacheFiles exists.
Flushed ==
    /\ \A k \in Keys : ~items[k].found /\ ~store[k].found
    /\ \A k \in cacheFiles : ~files[k].exists

\* C10: Flush removes every entry: when it returns no entry is left (of the
\* file backend: no file of a key of c.cacheFiles); a Has(k) or Get(k) after
\* it, of a key written before it and not since, returns false or fails with
\* ErrCacheNotFound; and a Flush of a cache with no entry changes nothing.
C10_FlushRemovesEverything ==
    /\ [](/\ ret.op = "Flush" => (ret.res = "nil" /\ Flushed)
          /\ (/\ ret.key = Probe /\ ret.obs.op \in {"Set", "Add"}
              /\ ret.obs.removedBy = "Flush")
             => (/\ ret.op = "Has" => ret.res = "false"
                 /\ ret.op = "Get" => ret.res = ErrCacheNotFound))
    /\ [][(ret'.op = "Flush" /\ Flushed)
             => UNCHANGED <<items, files, store, cacheFiles>>]_vars

\* A Get of a key written before a Flush, and not since, failed with
\* ErrCacheNotFound on the file backend.
C10_Witness ==
    /\ cacheType = cacheTypeFile
    /\ ret.op = "Get" /\ ret.key = Probe
    /\ ret.obs.op = "Set" /\ ret.obs.removedBy = "Flush"
    /\ ret.res = ErrCacheNotFound

\* C11: Delete(k) reports no error and is idempotent: when it returns, k has
\* no entry; a Has(k) or Get(k) after it, with no write of k in between,
\* returns false or fails with ErrCacheNotFound; and a Delete of a key that
\* has no entry changes nothing (so a second Delete changes nothing).
C11_DeleteIsIdempotent ==
    /\ [](/\ ret.op = "Delete"
               => (ret.res = "nil" /\ ~EntryOf(ret.key).found)
          /\ (/\ ret.key = Probe /\ ret.obs.op \in {"Set", "Add"}
              /\ ret.obs.removedBy = "Delete")
             => (/\ ret.op = "Has" => ret.res = "false"
                 /\ ret.op = "Get" => ret.res = ErrCacheNotFound))
    /\ [][\A k \in Keys :
             (ret'.op = "Delete" /\ ret'.key = k /\ ~EntryOf(k).found)
                => UNCHANGED <<items, files, store, cacheFiles>>]_vars

\* A Get of a key that was written and then deleted failed with
\* ErrCacheNotFound on the file backend.
C11_Witness ==
    /\ cacheType = cacheTypeFile
    /\ ret.op = "Get" /\ ret.key = Probe
    /\ ret.obs.op = "Set" /\ ret.obs.removedBy = "Delete"
    /\ ret.res = ErrCacheNotFound

\* A set whose file.Write fails leaves the file that os.OpenFile created: in
\* a directory whose Writes fail a key may be present though no write of it
\* has succeeded, and the history of the successful writes does not tell.
LeftoverFiles == cacheType = cacheTypeFile /\ ~env.fileWritable

\* The history obs of Probe shows no entry that is present and not stale at
\* time t: Probe was never written, or a caller removed the entry, or the
\* entry of the last write has expired.
AbsentOrStale(obs, t) ==
    /\ ~LeftoverFiles
    /\ \/ obs.op = "none"
       \/ obs.removedBy # "none"
       \/ ~BeforeExpiry(obs.at, t)

\* The result of set(k, v) by the code's own error paths: the error of the
\* encoder; then, on the file backend, the new error that holds the error
\* of os.OpenFile, or the error of file.Write; on the remote backends, the
\* error of the store's Set; else nil.
WriteResult(k, v) ==
    IF MarshalIndent(v).err # "nil" THEN MarshalIndent(v).err
    ELSE IF cacheType = cacheTypeFile /\ ~env.dirWritable
         THEN Errorf(ErrCreatingFile, OpenError(k))
    ELSE IF cacheType = cacheTypeFile /\ ~env.fileWritable
         THEN WriteError(k)
    ELSE IF cacheType \in {cacheTypeRedis, cacheTypeMemcache} /\ ~env.storeUp
         THEN StoreError
    ELSE "nil"

\* C12: an Add(k, v) on a key that is absent or stale behaves like Set(k, v):
\* it does not fail with ErrCacheAlreadyExists, it succeeds when the write
\* can be made, and when it has succeeded the entry of k is the encoding of v
\* with the expiry (time of the Add + TTL), the time of an Add or Set being
\* that of its write, for as long as that entry has not expired; Add fails with ErrCacheAlreadyExists only when k is
\* present and not stale.
C12_AddOnAbsentOrStaleIsSet ==
    (ret.op = "Add" /\ ret.key = Probe)
    => (/\ (ret.res = "nil" /\ BeforeExpiry(lastw.at, now))
              => EntryOf(Probe) = EntryWritten(ret.val, lastw.at)
        /\ ret.res = ErrCacheAlreadyExists => ~AbsentOrStale(ret.obs, now)
        /\ AbsentOrStale(ret.obs, now) => ret.res = WriteResult(ret.key, ret.val))

\* C13: a Set(k, v2) on a key that holds the entry of an earlier write
\* overwrites it and renews its lifetime: it returns no error when the write
\* can be made, and when it has returned nil the payload of k is the encoding
\* of v2 and, with TTL = T > 0, the expiry timestamp is (time of this Set +
\* T), whatever the expiry of the earlier write was (the time of a Set being
\* that of its write, and for as long as the new entry has not expired).
C13_SetOverwritesAndRenews ==
    (/\ ret.op = "Set" /\ ret.key = Probe
     /\ ret.obs.op # "none" /\ ret.obs.removedBy = "none")
    => (/\ ret.res = WriteResult(ret.key, ret.val)
        /\ (ret.res = "nil" /\ BeforeExpiry(lastw.at, now))
              => EntryOf(Probe) = EntryWritten(ret.val, lastw.at))

\* C14: on the memory backend there is no stale-but-present window.  A Get,
\* Pull or Has (the has of Add included) that finds the item of k expired
\* deletes k from the map in the step that decides it, Get and Pull returning
\* ErrCacheExpired there; when Get or Pull has returned ErrCacheExpired the
\* key is absent from the map; and a Get or Pull that looks up an absent key
\* fails with ErrCacheNotFound.
C14_NoStaleButPresentWindow ==
    /\ []((/\ cacheType = cacheTypeDefault
           /\ ret.op \in {"Get", "Pull"} /\ ret.res = ErrCacheExpired)
          => ~items[ret.key].found)
    /\ [][\A c \in Callers :
             (cacheType = cacheTypeDefault /\ th'[c] # th[c])
             => (/\ (/\ th[c].pc \in {"has_expired", "get_expired"}
                     /\ ItemExpired(th[c].item, now))
                    => (/\ ~items'[th[c].key].found
                        /\ th[c].op \in {"Get", "Pull"}
                              => (/\ ret'.op = th[c].op
                                  /\ ret'.res = ErrCacheExpired)
                        /\ th[c].op = "Has" => ret'.res = "false")
                 /\ (th[c].pc = "get" /\ ~items[th[c].key].found)
                    => (ret'.op = th[c].op /\ ret'.res = ErrCacheNotFound))]_vars

\* A Get of Probe on the memory backend has found the item of the last Set
\* expired: it returned ErrCacheExpired and the key is not in the map.
C14_Witness ==
    /\ cacheType = cacheTypeDefault
    /\ ret.op = "Get" /\ ret.key = Probe /\ ret.res = ErrCacheExpired
    /\ ret.obs.op = "Set" /\ ret.obs.removedBy = "none"
    /\ ~items[Probe].found

\* C15: at most one writer at a time.  In no reachable state are two threads
\* (callers, the cleaning goroutine) about to access the map or the set of
\* known files with one of them writing; the cleaning goroutine accesses
\* them only while no caller is inside Add, Set, Delete or Flush; and a
\* thread about to remove an item of the memory backend's map holds the
\* exclusive lock.
C15_AtMostOneWriter ==
    /\ ~MapRace
    /\ mu.w => SweepAccess = "none"
    /\ \A c \in Callers :
          (cacheType = cacheTypeDefault /\ CallerAccess(c) = "write")
             => (mu.w /\ th[c].op \in ExclusiveOps)
    /\ ~(cacheType = cacheTypeDefault /\ SweepAccess = "write")

\* The error a Set or Add of key k returns when its file cannot be created:
\* the message of ErrCreatingFile, followed by the error of the system.
CreatingFileError(k) == Errorf(ErrCreatingFile, OpenError(k))

\* C18: a failed write changes nothing and is reported.  A Set or Add whose
\* value cannot be encoded returns the encoder's error, and one whose file
\* cannot be created returns the error of creating the file; the step in
\* which set fails so leaves the map, the directory, the remote store and the
\* set of known files as they were (the key is not made present, nor added
\* to the known files); and the has of an Add, before it, removes nothing
\* but an expired entry of its own key.
C18_FailedWriteChangesNothing ==
    /\ [](ret.op \in {"Add", "Set"}
          => (/\ ret.val.kind = "chan" => ret.res = ErrUnsupportedType
              /\ (/\ cacheType = cacheTypeFile /\ ~env.dirWritable
                  /\ ret.val.kind \in {"int", "string"})
                 => (/\ ret.res = CreatingFileError(ret.key)
                     /\ ~files[ret.key].exists
                     /\ ret.key \notin cacheFiles)))
    /\ [][(/\ ret'.op \in {"Add", "Set"}
           /\ ret'.res \in {ErrUnsupportedType, CreatingFileError(ret'.key)})
          => UNCHANGED <<items, files, store, cacheFiles>>]_vars
    /\ [][\A c \in Callers :
             (th[c].op = "Add" /\ th[c].pc \in {"has", "has_expired"}
              /\ th'[c] # th[c])
             => (/\ cacheFiles' = cacheFiles
                 /\ \A k \in Keys :
                       \/ EntryOf(k)' = EntryOf(k)
                       \/ /\ k = th[c].key
                          /\ ~BeforeExpiry(EntryOf(k).expireAt - expiration, now)
                          /\ ~EntryOf(k)'.found)]_vars

\* A Set of a value that cannot be encoded, on a key that holds a live entry,
\* returned the encoder's error, and the entry is the one written before.
C18_Witness ==
    /\ ret.op = "Set" /\ ret.key = Probe /\ ret.res = ErrUnsupportedType
    /\ ret.val = ChanValue
    /\ ret.obs.op = "Set" /\ ret.obs.removedBy = "none"
    /\ EntryOf(Probe) = EntryWritten(ret.obs.val, ret.obs.at)

\* C20: the cleaning goroutine removes only stale entries.  In every step in
\* which it (memory backend) or one of its goroutines (file backend) removes
\* the entry of a key, the entry that the key holds at that moment has
\* expired; an entry written since the goroutine looked the key up is not
\* removed.
C20_SweeperRemovesOnlyStale ==
    [][/\ (/\ sw.pc = "has_expired" /\ sw'.pc # "has_expired"
           /\ items[sw.key].found /\ ~items'[sw.key].found)
          => ItemExpired(items[sw.key], now)
       /\ \A t \in BagToSet(tasks) :
             (/\ CopiesIn(t, tasks') < CopiesIn(t, tasks)
              /\ files[t.key].exists /\ ~files'[t.key].exists)
             => FileExpired(FileInfo(files[t.key]), now)]_vars

\* A caller is inside an operation that reads, checks, overwrites or removes
\* the entry of Probe.
Touched ==
    \E c \in Callers :
       th[c].pc # "idle" /\ (th[c].key = Probe \/ th[c].op = "Flush")

\* The cleaning goroutine waits for its timer, and the timer's value will
\* reach it after the entry of the last write of Probe has expired: the value
\* waits in the channel, or the timer is set to a time the clock gets to.
PassAfterExpiry ==
    /\ CleanerRuns /\ ~cleaner.stopped /\ sw.pc = "select"
    /\ \/ cleaner.fired /\ now > lastw.at + expiration
       \/ /\ cleaner.armed /\ cleaner.fireAt <= MaxTime
          /\ cleaner.fireAt > lastw.at + expiration

\* C16: on a local backend with a positive expiration and no stop signal the
\* cleaning goroutine keeps sweeping.  Under the scheduling of SpecLive, an
\* entry of Probe that was written and that no caller reads, checks,
\* overwrites or removes is removed from the map (its file deleted) in the
\* end by a pass that runs after the entry has expired.
C16_SweeperRemovesUntouchedEntries ==
    (/\ lastw.op # "none" /\ lastw.removedBy = "none"
     /\ EntryOf(Probe).found /\ ~Touched
     /\ PassAfterExpiry)
    ~> (~EntryOf(Probe).found \/ Touched \/ cleaner.stopped)

\* The lock is held exactly by the callers that are inside an operation:
\* exclusively by the one inside Add, Set, Delete or Flush, shared by those
\* inside Get, Pull or Has.
LockHeldByCallers ==
    /\ mu.w = (\E c \in Callers : th[c].pc # "idle" /\ th[c].op \in ExclusiveOps)
    /\ mu.r = Cardinality({c \in Callers :
                             th[c].pc # "idle" /\ th[c].op \in SharedOps})

\* C17: no operation blocks indefinitely.  Under the scheduling of SpecLive,
\* every caller that is inside Add, Set, Get, Pull, Has, Delete or Flush
\* returns in the end, in any interleaving with the other caller and the
\* cleaning goroutine, and by then it has released the lock it acquired: the
\* lock is held only by callers inside an operation.
C17_EveryCallReturns ==
    /\ \A c \in Callers : (th[c].pc # "idle") ~> (th[c].pc = "idle")
    /\ []LockHeldByCallers

\* C19: once the cleaning goroutine has received the stop signal it is
\* terminated for good: in every step after that, whatever the timer did
\* before the signal was received, the timer is not armed again and the
\* goroutine starts no pass.
C19_StopTerminatesSweeper ==
    [][cleaner.stopped => (~cleaner'.armed /\ sw'.pc = "select")]_vars

\* C21: lock discipline of the public operations.  A caller inside Add, Set,
\* Delete or Flush holds c.mu exclusively until it returns, and a caller
\* inside Get, Pull or Has holds it shared: two callers are inside their
\* operations at the same time only when both are inside Get, Pull or Has.
C21_LockDiscipline ==
    /\ \A c \in Callers :
          th[c].pc # "idle"
             => IF th[c].op \in ExclusiveOps THEN mu.w /\ mu.r = 0
                ELSE th[c].op \in SharedOps /\ ~mu.w /\ mu.r > 0
    /\ \A c, d \in Callers :
          (c # d /\ th[c].pc # "idle" /\ th[d].pc # "idle")
             => (th[c].op \in SharedOps /\ th[d].op \in SharedOps)

\* Two callers are inside Get, Pull or Has at the same time, both holding the
\* lock shared.
C21_Witness ==
    /\ \A c \in Callers : th[c].pc # "idle" /\ th[c].op \in SharedOps
    /\ mu.r = Cardinality(Callers) /\ ~mu.w

\* Caller c, inside Get, Pull or Has, has found the entry of key k expired
\* and is about to remove it.
Evicting(c, k) ==
    /\ th[c].op \in SharedOps
    /\ th[c].pc \in {"has_expired", "get_expired"} /\ th[c].key = k
    /\ IF cacheType = cacheTypeDefault THEN ItemExpired(th[c].item, now)
       ELSE cacheType = cacheTypeFile /\ FileExpired(th[c].info, now)

\* The same for the check of a sweep pass.
SweepEvicting(k) ==
    IF cacheType = cacheTypeDefault
    THEN sw.pc = "has_expired" /\ sw.key = k /\ ItemExpired(sw.item, now)
    ELSE \E t \in BagToSet(tasks) :
            t.pc = "has_expired" /\ t.key = k /\ FileExpired(t.info, now)

\* Two threads have found the same entry of k expired at the same time.
ConcurrentEviction(k) ==
    \/ \E c, d \in Callers : c # d /\ Evicting(c, k) /\ Evicting(d, k)
    \/ \E c \in Callers : Evicting(c, k) /\ SweepEvicting(k)

\* C22: the concurrent eviction of one stale key is benign.  When two of Get,
\* Pull, Has and the sweep check have found the same entry of k expired and
\* each removes it, nothing fails: the process goes on, and each caller's
\* eviction leaves k absent and every other key as it was and reports k as
\* not available (Has false, Get and Pull ErrCacheExpired or
\* ErrCacheNotFound, with no payload).
C22_ConcurrentEvictionIsBenign ==
    [][\A k \in Keys :
          ConcurrentEviction(k)
          => (/\ ~fatal'
              /\ \A c \in Callers :
                    (Evicting(c, k) /\ th'[c] # th[c])
                    => (/\ ~EntryOf(k)'.found
                        /\ \A k2 \in Keys \ {k} : EntryOf(k2)' = EntryOf(k2)
                        /\ ret'.res \in {"false", ErrCacheExpired,
                                         ErrCacheNotFound}
                        /\ ret'.out = ""))]_vars

\* An entry e (found, payload, expiry timestamp) is present and fresh at time
\* t: the expiration is zero or less, or t is not after the expiry (of a
\* file, whose modification time is less than a unit before the instant
\* kept for it: t is before that instant plus the expiration).
FreshAt(e, t) ==
    /\ e.found
    /\ \/ expiration <= 0
       \/ IF cacheType = cacheTypeFile THEN t < e.expireAt
          ELSE t <= e.expireAt

\* The entry that caller c's lookup (the map lookup, os.Stat) has found.
LookedUp(c) ==
    IF cacheType = cacheTypeDefault
    THEN [found |-> th[c].item.found, value |-> th[c].item.value,
          expireAt |-> th[c].item.expiration]
    ELSE [found |-> TRUE, value |-> "",
          expireAt |-> th[c].info.modTime + expiration]

\* The entry that the lookup of the sweep check has found (memory backend).
SweepLookedUp ==
    [found |-> sw.item.found, value |-> sw.item.value,
     expireAt |-> sw.item.expiration]

\* C23: Has agrees with Get, Pull and the sweep check on freshness.  Has
\* returns true or false, never an error.  On the local backends, with the
\* same entry looked up and the clock read at the same time, Has returns true
\* exactly when Get and Pull do not fail with ErrCacheExpired, and exactly
\* when the sweep check keeps the entry: all of them take the entry for
\* stale exactly when now > write time + TTL, TTL > 0.  A key that the lookup
\* does not find is false for Has and ErrCacheNotFound for Get and Pull, and
\* the sweep check removes nothing for it.
C23_HasAgreesWithGet ==
    /\ [](ret.op = "Has" => ret.res \in {"true", "false"})
    /\ [][\A c \in Callers :
             (cacheType \in {cacheTypeDefault, cacheTypeFile}
              /\ th'[c] # th[c])
             => (/\ (th[c].op = "Has" /\ th[c].pc = "has_expired")
                    => (ret'.res = "true" <=> FreshAt(LookedUp(c), now))
                 /\ (th[c].op \in {"Get", "Pull"} /\ th[c].pc = "get_expired")
                    => (/\ ret'.res # ErrCacheExpired
                              <=> FreshAt(LookedUp(c), now)
                        /\ (cacheType = cacheTypeDefault /\ th[c].op = "Get")
                              => (ret'.res = "nil"
                                     <=> FreshAt(LookedUp(c), now))
                        /\ (cacheType = cacheTypeDefault /\ th[c].op = "Pull")
                              => (th'[c].pc = "get_remove"
                                     <=> FreshAt(LookedUp(c), now)))
                 /\ (th[c].op = "Has" /\ th[c].pc = "has"
                     /\ ~EntryOf(th[c].key).found)
                    => ret'.res = "false"
                 /\ (th[c].op \in {"Get", "Pull"} /\ th[c].pc = "get"
                     /\ ~EntryOf(th[c].key).found)
                    => ret'.res = ErrCacheNotFound)]_vars
    /\ [][(sw.pc = "has_expired" /\ sw'.pc # "has_expired")
          => IF ~sw.item.found \/ FreshAt(SweepLookedUp, now)
             THEN items' = items
             ELSE ~items'[sw.key].found]_vars
    /\ [][\A t \in BagToSet(tasks) :
             (t.pc = "has_expired" /\ CopiesIn(t, tasks') < CopiesIn(t, tasks))
             => IF FreshAt([found |-> TRUE, value |-> "",
                            expireAt |-> t.info.modTime + expiration], now)
                THEN files' = files
                ELSE ~files'[t.key].exists]_vars

\* A Has of Probe returned true at the very time the entry of the last Set
\* expires (now = write time + TTL), on a local backend.
C23_Witness ==
    /\ cacheType \in {cacheTypeDefault, cacheTypeFile} /\ expiration > 0
    /\ ret.op = "Has" /\ ret.key = Probe /\ ret.res = "true"
    /\ ret.obs.op = "Set" /\ now = ret.obs.at + expiration

\* C24: a cleaner exists only for a local backend with a positive expiration.
\* A memory or file cache constructed with an expiration above zero has a
\* timer, armed at construction to fire after one expiration, and a cleaning
\* goroutine waiting for it; a cache constructed with an expiration of zero
\* or less, and a redis or memcache cache with any expiration, has no timer
\* and no goroutine: its timer never fires and no pass ever runs.
C24_CleanerOnlyForLocalWithExpiration ==
    IF cacheType \in {cacheTypeDefault, cacheTypeFile} /\ expiration > 0
    THEN /\ cleaner.on /\ CleanerRuns
         /\ now < expiration
               => (/\ cleaner.armed /\ cleaner.fireAt = expiration
                   /\ ~cleaner.fired /\ sw = SwIdle)
    ELSE /\ cleaner = NoCleaner /\ ~CleanerRuns
         /\ sw = SwIdle /\ tasks = EmptyBag

\* A pass of the cleaning goroutine, started by the timer armed at
\* construction, is under way on the file backend.
C24_Witness ==
    /\ cacheType = cacheTypeFile /\ expiration > 0
    /\ sw.pc = "range" /\ cacheFiles # {} /\ now >= expiration
    /\ ~cleaner.armed

\* The read of key k in the remote store succeeds: the store holds an entry
\* of k that has not expired there.
StoreReadSucceeds(k) == store[k].found /\ ~StoreExpired(store[k], now)

\* C25: on the redis and memcache backends the facade has no staleness test
\* of its own.  Get and Pull return nil or ErrCacheNotFound, never
\* ErrCacheExpired; a Get or Pull whose read of the store succeeds has the
\* store's value as its payload, and one whose read fails (the key never
\* written, removed, or expired in the store) returns ErrCacheNotFound; Has
\* returns true exactly when its read of the store succeeds.
C25_RemoteHasNoStalenessTest ==
    /\ []((cacheType \in {cacheTypeRedis, cacheTypeMemcache}
           /\ ret.op \in {"Get", "Pull"})
          => ret.res \in {"nil", ErrCacheNotFound})
    /\ [][\A c \in Callers :
             (cacheType \in {cacheTypeRedis, cacheTypeMemcache}
              /\ th'[c] # th[c])
             => (/\ (th[c].op = "Get" /\ th[c].pc = "get")
                    => IF StoreReadSucceeds(th[c].key)
                       THEN /\ ret'.res = "nil"
                            /\ ret'.out = store[th[c].key].value
                       ELSE ret'.res = ErrCacheNotFound /\ ret'.out = ""
                 /\ (th[c].op = "Pull" /\ th[c].pc = "get")
                    => IF StoreReadSucceeds(th[c].key)
                       THEN th'[c].out = store[th[c].key].value
                       ELSE ret'.res = ErrCacheNotFound /\ ret'.out = ""
                 /\ (th[c].op = "Pull" /\ th[c].pc = "get_remove")
                    => (ret'.res = "nil" /\ ret'.out = th[c].out)
                 /\ (th[c].op = "Has" /\ th[c].pc = "has")
                    => (ret'.res = "true"
                           <=> StoreReadSucceeds(th[c].key)))]_vars

\* A Get on a remote backend, made after the entry of the last Set has
\* expired in the store, failed with ErrCacheNotFound.
C25_Witness ==
    /\ cacheType \in {cacheTypeRedis, cacheTypeMemcache} /\ expiration > 0
    /\ ret.op = "Get" /\ ret.key = Probe
    /\ ret.obs.op = "Set" /\ ret.obs.removedBy = "none"
    /\ now > ret.obs.at + expiration /\ store[Probe].found
    /\ ret.res = ErrCacheNotFound

\* C26: Pull hands a value to at most one caller.  Of the Pulls of k that
\* follow one successful Set(k, v), concurrent or not, with no other write of
\* k, at most one returns the payload: a Pull does not return nil when an
\* earlier Pull has returned the payload of the same write.
C26_PullHandsValueToOneCaller ==
    (ret.op = "Pull" /\ ret.key = Probe /\ ret.res = "nil")
    => ret.obs.removedBy # "Pull"

\* Caller c takes a step of an operation on one key (every operation of the
\* interface but Flush).
KeyedStep(c) ==
    th[c].pc # "idle" /\ th[c].op # "Flush" /\ th'[c] # th[c]

\* C27: operations on one key do not disturb other keys.  Every step of an
\* Add, Set, Get, Pull, Has or Delete of key k, whether the operation
\* succeeds, fails or evicts a stale entry of k, leaves the presence, the
\* payload and the expiry timestamp of every other key unchanged.
C27_OtherKeysUndisturbed ==
    [][\A c \in Callers :
         KeyedStep(c) =>
            \A j \in Keys \ {th[c].key} : EntryOf(j)' = EntryOf(j)]_vars

\* A Pull of another key has returned its payload and removed its entry, and
\* the entry of Probe is the one its last write left.
C27_Witness ==
    /\ ret.op = "Pull" /\ ret.key # Probe /\ ret.res = "nil"
    /\ ~EntryOf(ret.key).found
    /\ Kept(lastw, "Set")
    /\ EntryOf(Probe) = EntryWritten(lastw.val, lastw.at)

\* C28: on the file backend, in every reachable state c.cacheFiles holds the
\* key of every file that a successful Set or Add of this instance wrote, so
\* Flush and the sweep reach all of them: a Set or Add that returns nil has
\* put its key there, and no step (of Delete, Pull, Flush, an eviction, or any
\* other) takes a key out of it.  (A file outside c.cacheFiles is one whose
\* set has not returned, or has failed in its Write, or was stopped by the
\* runtime between the Write and the recording of the key.)
C28_KnownFilesCoverWrittenFiles ==
    /\ [](cacheType = cacheTypeFile =>
            /\ (ret.op \in {"Add", "Set"} /\ ret.res = "nil")
                  => ret.key \in cacheFiles
            /\ lastw.op # "none" => Probe \in cacheFiles)
    /\ [][cacheType = cacheTypeFile => cacheFiles \subseteq cacheFiles']_vars

\* On the file backend the file a Set of Probe wrote exists and is known, and
\* a Delete or Pull of another key has removed that key's file, which is
\* still named in c.cacheFiles.
C28_Witness ==
    /\ cacheType = cacheTypeFile
    /\ Kept(lastw, "Set") /\ files[Probe].exists /\ Probe \in cacheFiles
    /\ ret.op \in {"Delete", "Pull"} /\ ret.key \in cacheFiles \ {Probe}
    /\ ~files[ret.key].exists

\* The operation that returned is a Get of Probe on a memcache backend with
\* a positive expiration T, made at a time t > t0 + T (in whole seconds:
\* t - t0 exceeds the whole seconds of T), t0 being the time of the last
\* write of the key, a Set(k, v).
GetAfterExpiry ==
    /\ expiration # ZeroDuration /\ expiration.hi = 0
    /\ ret.op = "Get" /\ ret.key = Probe
    /\ ret.obs.op = "Set"
    /\ ret.start - ret.obs.at > expiration.lo

\* C5: with a positive expiration T, after Set(k, v) at time t0 and no later
\* write to k, every Get(k) made at a time t > t0 + T fails with
\* ErrCacheExpired.  Checked on the memcache backend is what the claim asks
\* of the Get whatever the error: that it fails, returning an error and no
\* payload.
C5_GetAfterExpiryFails ==
    GetAfterExpiry => (ret.res # "nil" /\ ret.out = "")

\* C29: on the memcache backend every positive configured TTL reaches the
\* store as a positive expiry: the Expiration int32(TTL in whole seconds) of
\* an item handed to the store's write is greater than 0 whenever the TTL is
\* positive, a TTL under one second included, so that no entry written with
\* a positive TTL is stored as persistent; a TTL <= 0 is passed as 0.
C29_PositiveTTLPositiveExpiry ==
    \A k \in Keys :
        store[k] # NoEntry =>
            IF expiration # ZeroDuration THEN store[k].item.Expiration > 0
            ELSE store[k].item.Expiration = 0

=============================================================================
